---- MODULE Spec2Model ----
(***************************************************************************)
(* CoinMarketCap API MCP server (src/server.py): start-up of the process,  *)
(* the D402 payment middleware it installs in front of the priced tools,   *)
(* and the tool handlers that proxy an admitted call to the backend.       *)
(*                                                                         *)
(* Text values (environment values, credentials, amounts) are sequences of *)
(* character codes, so that str.lower() and the numeric reading of an      *)
(* amount are computed and not assumed.                                    *)
(***************************************************************************)
EXTENDS Integers, Sequences, FiniteSets, TLC

VARIABLES env, pc, error, SERVER_ADDRESS, API_KEY, warned, tools,
          tool_payment_configs, facilitator_url, testing_mode,
          user_middleware, d402, routes, reqs

bootVars == <<env, pc, error, SERVER_ADDRESS, API_KEY, warned, tools,
              tool_payment_configs, facilitator_url, testing_mode,
              user_middleware, d402, routes>>
vars == <<env, pc, error, SERVER_ADDRESS, API_KEY, warned, tools,
          tool_payment_configs, facilitator_url, testing_mode,
          user_middleware, d402, routes, reqs>>

----------------------------------------------------------------------------
(* Text values *)

\* Python's None: an unset environment variable, an absent header.
None == <<0>>

\* bool(v) of an Optional[str]: None and "" are falsy.
Truthy(v) == v # None /\ v # <<>>

\* str.lower() on ASCII: 'A'..'Z' (65..90) map to 'a'..'z'.
lower_char(c) == IF c >= 65 /\ c <= 90 THEN c + 32 ELSE c
lower(s) == [i \in 1..Len(s) |-> lower_char(s[i])]

S_true  == <<116, 114, 117, 101>>
S_TRUE  == <<84, 82, 85, 69>>
S_True  == <<84, 114, 117, 101>>
S_false == <<102, 97, 108, 115, 101>>
S_one   == <<49>>
S_addr  == <<48, 120, 65>>
S_key   == <<107, 49>>
S_other == <<107, 50>>
S_url   == <<104, 116, 116, 112>>

\* os.getenv(name, default) against the process environment e.
getenv(e, name, default) == IF e[name] = None THEN default ELSE e[name]

\* a or b on Optional[str]: a when a is truthy, else b.
py_or(a, b) == IF Truthy(a) THEN a ELSE b

EnvNames == {"SERVER_ADDRESS", "COINMARKETCAP_API_API_KEY", "FACILITATOR_URL",
             "D402_FACILITATOR_URL", "D402_TESTING_MODE"}

----------------------------------------------------------------------------
(* Tool declarations *)

\* The functions decorated with @mcp.tool() and @require_payment_for_tool.
DeclaredTools ==
    {"get_v1_content_latest", "get_v1_cryptocurrency_airdrop",
     "get_v1_cryptocurrency_airdrops", "get_v1_cryptocurrency_categories",
     "get_v1_cryptocurrency_category", "get_v1_cryptocurrency_info",
     "get_v1_cryptocurrency_map", "get_v1_exchange_assets", "get_v1_exchange_info",
     "get_v1_exchange_map", "get_v1_fiat_map", "get_v1_key_info", "get_v1_tools_postman",
     "get_v1_tools_price_conversion", "get_v2_cryptocurrency_info",
     "get_v2_tools_price_conversion", "get_v3_fear_and_greed_historical",
     "get_v3_fear_and_greed_latest", "get_v1_blockchain_statistics_latest",
     "get_v1_community_trending_token", "get_v1_community_trending_topic",
     "get_v1_content_posts_comments", "get_v1_content_posts_latest",
     "get_v1_content_posts_top", "get_v1_cryptocurrency_listings_historical",
     "get_v1_cryptocurrency_listings_latest", "get_v1_cryptocurrency_listings_new",
     "get_v1_cryptocurrency_market_pairs_latest", "get_v1_cryptocurrency_ohlcv_historical",
     "get_v1_cryptocurrency_ohlcv_latest",
     "get_v1_cryptocurrency_price_performance_stats_latest",
     "get_v1_cryptocurrency_quotes_historical", "get_v1_cryptocurrency_quotes_latest",
     "get_v1_cryptocurrency_trending_gainers_losers", "get_v1_cryptocurrency_trending_latest",
     "get_v1_cryptocurrency_trending_most_visited", "get_v1_exchange_listings_latest",
     "get_v1_exchange_market_pairs_latest", "get_v1_exchange_quotes_historical",
     "get_v1_exchange_quotes_latest", "get_v1_global_metrics_quotes_historical",
     "get_v1_global_metrics_quotes_latest", "get_v2_cryptocurrency_market_pairs_latest",
     "get_v2_cryptocurrency_ohlcv_historical", "get_v2_cryptocurrency_ohlcv_latest",
     "get_v2_cryptocurrency_price_performance_stats_latest",
     "get_v2_cryptocurrency_quotes_historical", "get_v2_cryptocurrency_quotes_latest",
     "get_v3_cryptocurrency_quotes_historical",
     "get_v1_partners_flipside_crypto_fcas_listings_latest",
     "get_v1_partners_flipside_crypto_fcas_quotes_latest"}

\* int(amount): the decimal digits of the amount strings in use, most
\* significant first (the values exceed the checker's machine integers).
nines(n) == [i \in 1..n |-> 9]
zeros(n) == [i \in 1..n |-> 0]
decimal_digits(s) ==
    CASE s = "1000000000000000" -> <<1>> \o zeros(15)
      [] s = "2000000000000000" -> <<2>> \o zeros(15)
      [] s = "999999999999999"  -> nines(15)
      [] OTHER -> <<>>
is_decimal(s) == decimal_digits(s) # <<>>

\* The price every @require_payment_for_tool decorator carries.
PriceAmount == "1000000000000000"
PriceAsset == [address |-> "0x3e17730bb2ca51a8D5deD7E44c003A2e95a4d822",
               decimals |-> 6, network |-> "sepolia"]
PriceDomain == [name |-> "IATPWallet", version |-> "1"]
DeclaredPrice_malformed(t) ==
    [amount |-> PriceAmount,
     asset |-> IF t = "get_v1_cryptocurrency_quotes_latest"
               THEN [address |-> "", decimals |-> 0, network |-> "sepolia"]
               ELSE PriceAsset,
     domain |-> PriceDomain]
DeclaredPrice_one_cheaper(t) ==
    [amount |-> IF t = "get_v1_cryptocurrency_quotes_latest" THEN "999999999999999"
                ELSE PriceAmount,
     asset |-> PriceAsset, domain |-> PriceDomain]
DeclaredPrice(t) == [amount |-> PriceAmount, asset |-> PriceAsset, domain |-> PriceDomain]

\* extract_payment_configs_from_mcp(mcp, SERVER_ADDRESS): one entry per
\* registered tool, holding the decorator's price and the pay-to address.
\* The registry accepts a price descriptor whose amount is a non-negative
\* integer literal, whose asset has an address and a positive decimal count
\* and whose signing domain has a name; any other one is a configuration error.
well_formed(price) ==
    /\ is_decimal(price.amount)
    /\ price.asset.address # ""
    /\ price.asset.decimals > 0
    /\ price.domain.name # ""
\* The tools whose definition carries @require_payment_for_tool: all of them.
PaidTools_one_undecorated == DeclaredTools \ {"get_v1_content_latest"}
PaidTools == DeclaredTools
extract_payment_configs_from_mcp(registered, pay_to) ==
    [t \in registered \cap PaidTools |-> [price |-> DeclaredPrice(t), pay_to |-> pay_to]]

----------------------------------------------------------------------------
(* Start-up: module load, then create_app_with_middleware, then uvicorn *)

\* tool_payment_configs is handed over by reference: the middleware reads the
\* one registry built by ExtractPaymentConfigs.
NoD402 == [installed |-> FALSE, requires_auth |-> FALSE, internal_api_key |-> None,
           testing_mode |-> FALSE, facilitator_url |-> None]

\* API_KEY = os.getenv("COINMARKETCAP_API_API_KEY")
load_api_key_with_default(e) == getenv(e, "COINMARKETCAP_API_API_KEY", S_key)
load_api_key(e) == getenv(e, "COINMARKETCAP_API_API_KEY", None)

\* if not SERVER_ADDRESS:
server_address_missing_unset_only(address) == address = None
server_address_missing(address) == ~Truthy(address)

\* SERVER_ADDRESS = os.getenv(...); raise ValueError when falsy; then API_KEY.
LoadConfiguration ==
    /\ pc = "load"
    /\ SERVER_ADDRESS' = getenv(env, "SERVER_ADDRESS", None)
    /\ IF server_address_missing(SERVER_ADDRESS')
       THEN /\ pc' = "aborted"
            /\ error' = "SERVER_ADDRESS required for payment protocol"
            /\ UNCHANGED <<API_KEY, warned>>
       ELSE /\ API_KEY' = load_api_key(env)
            /\ warned' = ~Truthy(API_KEY')
            /\ pc' = "register"
            /\ UNCHANGED error
    /\ UNCHANGED <<env, tools, tool_payment_configs, facilitator_url, testing_mode,
                   user_middleware, d402, routes, reqs>>

\* mcp = FastMCP(...) and the 51 decorated definitions executed at import.
RegisterTools ==
    /\ pc = "register"
    /\ tools' = DeclaredTools
    /\ pc' = "main"
    /\ UNCHANGED <<env, error, SERVER_ADDRESS, API_KEY, warned, tool_payment_configs,
                   facilitator_url, testing_mode, user_middleware, d402, routes, reqs>>

\* create_app_with_middleware: app = mcp.streamable_http_app(); the registry.
ExtractPaymentConfigs ==
    /\ pc = "main"
    /\ IF \A t \in tools : well_formed(DeclaredPrice(t))
       THEN /\ tool_payment_configs' = extract_payment_configs_from_mcp(tools, SERVER_ADDRESS)
            /\ pc' = "config"
            /\ error' = error
       ELSE /\ tool_payment_configs' = tool_payment_configs
            /\ pc' = "aborted"
            /\ error' = "malformed price descriptor"
    /\ UNCHANGED <<env, SERVER_ADDRESS, API_KEY, warned, tools,
                   facilitator_url, testing_mode, user_middleware, d402, routes, reqs>>

\* testing_mode = os.getenv("D402_TESTING_MODE", "false").lower() == "true"
parse_testing_mode_default_on(e) == lower(getenv(e, "D402_TESTING_MODE", S_true)) = S_true
parse_testing_mode(e) == lower(getenv(e, "D402_TESTING_MODE", S_false)) = S_true

\* facilitator_url = os.getenv("FACILITATOR_URL") or os.getenv("D402_FACILITATOR_URL")
read_facilitator_url(e) ==
    py_or(getenv(e, "FACILITATOR_URL", None), getenv(e, "D402_FACILITATOR_URL", None))

ReadD402Config ==
    /\ pc = "config"
    /\ facilitator_url' = read_facilitator_url(env)
    /\ testing_mode' = parse_testing_mode(env)
    /\ pc' = "check"
    /\ UNCHANGED <<env, error, SERVER_ADDRESS, API_KEY, warned, tools,
                   tool_payment_configs, user_middleware, d402, routes, reqs>>

\* if not facilitator_url and not testing_mode: raise ValueError(...)
facilitator_missing_unchecked(url, testing) == FALSE
facilitator_missing(url, testing) == ~Truthy(url) /\ ~testing

CheckFacilitator ==
    /\ pc = "check"
    /\ IF facilitator_missing(facilitator_url, testing_mode)
       THEN /\ pc' = "aborted"
            /\ error' = "Set FACILITATOR_URL or enable D402_TESTING_MODE=true"
       ELSE /\ pc' = "cors"
            /\ UNCHANGED error
    /\ UNCHANGED <<env, SERVER_ADDRESS, API_KEY, warned, tools, tool_payment_configs,
                   facilitator_url, testing_mode, user_middleware, d402, routes, reqs>>

\* Starlette.add_middleware: self.user_middleware.insert(0, Middleware(...)).
add_middleware(stack, name) == <<name>> \o stack

AddCorsMiddleware ==
    /\ pc = "cors"
    /\ user_middleware' = add_middleware(user_middleware, "CORSMiddleware")
    /\ pc' = "d402"
    /\ UNCHANGED <<env, error, SERVER_ADDRESS, API_KEY, warned, tools,
                   tool_payment_configs, facilitator_url, testing_mode, d402, routes, reqs>>

d402_not_added ==
    [installed |-> FALSE, requires_auth |-> TRUE, internal_api_key |-> API_KEY,
     testing_mode |-> testing_mode, facilitator_url |-> facilitator_url]
d402_without_auth ==
    [installed |-> TRUE, requires_auth |-> FALSE, internal_api_key |-> API_KEY,
     testing_mode |-> testing_mode, facilitator_url |-> facilitator_url]
d402_testing_forced ==
    [installed |-> TRUE, requires_auth |-> TRUE, internal_api_key |-> API_KEY,
     testing_mode |-> TRUE, facilitator_url |-> facilitator_url]
d402_testing_dropped ==
    [installed |-> TRUE, requires_auth |-> TRUE, internal_api_key |-> API_KEY,
     testing_mode |-> FALSE, facilitator_url |-> facilitator_url]

\* The keyword arguments of app.add_middleware(D402PaymentMiddleware, ...).
d402_arguments ==
    [installed |-> TRUE, requires_auth |-> TRUE, internal_api_key |-> API_KEY,
     testing_mode |-> testing_mode, facilitator_url |-> facilitator_url]

AddD402Middleware ==
    /\ pc = "d402"
    /\ user_middleware' = add_middleware(user_middleware, "D402PaymentMiddleware")
    /\ d402' = d402_arguments
    /\ pc' = "health"
    /\ UNCHANGED <<env, error, SERVER_ADDRESS, API_KEY, warned, tools,
                   tool_payment_configs, facilitator_url, testing_mode, routes, reqs>>

\* @app.route("/health", methods=["GET"])
health_routes_unregistered == {}
health_routes == {"/health"}

AddHealthRoute ==
    /\ pc = "health"
    /\ routes' = routes \cup health_routes
    /\ pc' = "run"
    /\ UNCHANGED <<env, error, SERVER_ADDRESS, API_KEY, warned, tools,
                   tool_payment_configs, facilitator_url, testing_mode,
                   user_middleware, d402, reqs>>

\* uvicorn.run(app, ...): from here on requests are served.
RunServer ==
    /\ pc = "run"
    /\ pc' = "serving"
    /\ UNCHANGED <<env, error, SERVER_ADDRESS, API_KEY, warned, tools,
                   tool_payment_configs, facilitator_url, testing_mode,
                   user_middleware, d402, routes, reqs>>

----------------------------------------------------------------------------
(* Requests *)

MaxRequests == 2
Requests == 1..MaxRequests

\* Tool names a request may carry: declared ones and one that is not declared.
QuotesLatest == "get_v1_cryptocurrency_quotes_latest"
ContentLatest == "get_v1_content_latest"
UnknownTool == "get_v9_not_declared"

\* Credentials a caller may present: none, the empty string, two values.
Credentials == {None, <<>>, S_key, S_other}

\* Amounts a proof may assert: one unit below the price, the price, twice it.
UnderAmount == "999999999999999"
OverAmount  == "2000000000000000"

NoProof == [present |-> FALSE, amount |-> "", address |-> "", network |-> "",
            expired |-> FALSE]
proof_of(amount, address, network, expired) ==
    [present |-> TRUE, amount |-> amount, address |-> address, network |-> network,
     expired |-> expired]
Proofs ==
    {proof_of(PriceAmount, PriceAsset.address, PriceAsset.network, FALSE),
     proof_of(OverAmount, PriceAsset.address, PriceAsset.network, FALSE),
     proof_of(UnderAmount, PriceAsset.address, PriceAsset.network, FALSE),
     proof_of(PriceAmount, "0x0000000000000000000000000000000000000001",
              PriceAsset.network, FALSE),
     proof_of(PriceAmount, PriceAsset.address, "mainnet", FALSE),
     proof_of(PriceAmount, PriceAsset.address, PriceAsset.network, TRUE)}

\* What a caller may send. Request 1 ranges over every combination of
\* credential and proof, for a declared and for an undeclared tool; the other
\* requests are concurrent traffic: another declared tool, called with a
\* credential and a proof one unit short of the price. Request 1 may also be a
\* GET of the health route, with any of the same headers.
AllInputs ==
    [path : {"/mcp"}, tool : {QuotesLatest, UnknownTool}, credential : Credentials,
     proof : Proofs \cup {NoProof}]
HealthInputs ==
    [path : {"/health"}, tool : {""}, credential : Credentials,
     proof : Proofs \cup {NoProof}]
TrafficInputs ==
    {[path |-> "/mcp", tool |-> ContentLatest, credential |-> S_key,
      proof |-> proof_of(UnderAmount, PriceAsset.address, PriceAsset.network, FALSE)]}
Inputs(r) == IF r = 1 THEN AllInputs \cup HealthInputs ELSE TrafficInputs

NoOutcome == [admitted |-> FALSE, mode |-> "none", resolved_identity |-> None,
              denial_reason |-> "none"]
NoBody == [accepts |-> <<>>, reason |-> "none"]
NoResult == [kind |-> "none", endpoint |-> ""]

IdleRequest ==
    [phase |-> "idle", path |-> "", tool |-> "", credential |-> None, proof |-> NoProof,
     cred_checked |-> FALSE, verifier_invoked |-> FALSE, facilitator_calls |-> 0,
     verdict |-> "none", outcome |-> NoOutcome, state_api_key |-> None,
     status |-> 0, body |-> NoBody, handler_runs |-> 0, backend_calls |-> 0,
     authorization |-> None, timeout |-> 0, result |-> NoResult]

----------------------------------------------------------------------------
(* Credential Gate, Payment Verifier, Challenge Builder *)

\* check_credential(presented_value, configured_secret)
check_credential(presented, configured) == Truthy(configured) /\ presented = configured

RECURSIVE strip_zeros(_)
strip_zeros(s) == IF Len(s) > 1 /\ Head(s) = 0 THEN strip_zeros(Tail(s)) ELSE s
RECURSIVE digits_ge(_, _)
digits_ge(a, b) ==
    IF a = <<>> THEN TRUE
    ELSE IF Head(a) # Head(b) THEN Head(a) > Head(b)
    ELSE digits_ge(Tail(a), Tail(b))
amount_ge(a, b) ==
    LET x == strip_zeros(decimal_digits(a))
        y == strip_zeros(decimal_digits(b))
    IN  IF Len(x) # Len(y) THEN Len(x) > Len(y) ELSE digits_ge(x, y)

\* verify_payment in testing mode: the structural checks only.
structurally_valid(proof, price) ==
    /\ proof.present
    /\ is_decimal(proof.amount)
    /\ amount_ge(proof.amount, price.amount)
    /\ proof.address = price.asset.address
    /\ proof.network = price.asset.network

\* A facilitator call ends with an answer, a timeout or a transport error.
FacilitatorReplies == {"valid", "rejected", "timeout", "transport_error"}
verdict_valid(reply) == reply = "valid"

\* build_402(price_config, denial_reason): the challenge body.
accepts_of(price) == [amount |-> price.amount, asset |-> price.asset, domain |-> price.domain]
build_402(configs, tool, reason) ==
    [accepts |-> IF tool \in DOMAIN configs THEN <<accepts_of(configs[tool].price)>> ELSE <<>>,
     reason |-> reason]

admit(mode, identity) ==
    [admitted |-> TRUE, mode |-> mode, resolved_identity |-> identity,
     denial_reason |-> "none"]
deny(reason) ==
    [admitted |-> FALSE, mode |-> "denied", resolved_identity |-> None,
     denial_reason |-> reason]

----------------------------------------------------------------------------
(* Admission Middleware: one action per state of the per-request machine *)

\* Where an arriving request goes: into the payment middleware when it is
\* installed, else straight to the routing surface, which calls the handler of
\* a registered tool and answers any other name with its own error.
entry_phase(mw, registered, tool) ==
    IF mw.installed THEN "RESOLVE_TOOL"
    ELSE IF tool \in registered THEN "HANDLER" ELSE "NOT_FOUND"

\* The health route is not a priced tool: a request for it goes past the whole
\* admission machine to the routing surface.
bypasses_admission(path) == path = "/health"

Arrive(r) ==
    /\ pc = "serving"
    /\ reqs[r].phase = "idle"
    /\ r > 1 => reqs[r - 1].phase # "idle"
    /\ \E i \in Inputs(r) :
          reqs' = [reqs EXCEPT ![r] = [IdleRequest EXCEPT
                      !.phase = IF bypasses_admission(i.path) THEN "HEALTH"
                                ELSE entry_phase(d402, tools, i.tool),
                      !.path = i.path, !.tool = i.tool, !.credential = i.credential, !.proof = i.proof]]
    /\ UNCHANGED bootVars

ResolveTool(r) ==
    /\ reqs[r].phase = "RESOLVE_TOOL"
    /\ reqs' = [reqs EXCEPT ![r] =
          IF reqs[r].tool \notin DOMAIN tool_payment_configs
          THEN [@ EXCEPT !.phase = "DENY", !.outcome = deny("unknown_tool")]
          ELSE [@ EXCEPT !.phase = IF d402.requires_auth THEN "TRY_CREDENTIAL"
                                   ELSE "TRY_PAYMENT"]]
    /\ UNCHANGED bootVars

TryCredential(r) ==
    /\ reqs[r].phase = "TRY_CREDENTIAL"
    /\ reqs' = [reqs EXCEPT ![r] =
          IF check_credential(reqs[r].credential, d402.internal_api_key)
          THEN [@ EXCEPT !.cred_checked = TRUE, !.phase = "ADMIT",
                         !.outcome = admit("credential", reqs[r].credential)]
          ELSE [@ EXCEPT !.cred_checked = TRUE, !.phase = "TRY_PAYMENT"]]
    /\ UNCHANGED bootVars

TryPayment(r) ==
    /\ reqs[r].phase = "TRY_PAYMENT"
    /\ LET q == reqs[r]
           price == tool_payment_configs[q.tool].price
       IN  reqs' = [reqs EXCEPT ![r] =
             IF ~q.proof.present
             THEN [@ EXCEPT !.phase = "DENY", !.outcome = deny("no_proof")]
             ELSE IF d402.testing_mode
             THEN IF structurally_valid(q.proof, price)
                  THEN [@ EXCEPT !.verifier_invoked = TRUE, !.phase = "ADMIT",
                                 !.outcome = admit("payment", d402.internal_api_key)]
                  ELSE [@ EXCEPT !.verifier_invoked = TRUE, !.phase = "DENY",
                                 !.outcome = deny("invalid_proof")]
             ELSE IF q.proof.expired
             THEN [@ EXCEPT !.verifier_invoked = TRUE, !.phase = "DENY",
                            !.outcome = deny("expired_proof")]
             ELSE [@ EXCEPT !.verifier_invoked = TRUE, !.phase = "FACILITATOR",
                            !.facilitator_calls = @ + 1]]
    /\ UNCHANGED bootVars

FacilitatorReply(r) ==
    /\ reqs[r].phase = "FACILITATOR"
    /\ \E reply \in FacilitatorReplies :
          reqs' = [reqs EXCEPT ![r] =
             IF verdict_valid(reply)
             THEN [@ EXCEPT !.verdict = reply, !.phase = "ADMIT",
                            !.outcome = admit("payment", d402.internal_api_key)]
             ELSE [@ EXCEPT !.verdict = reply, !.phase = "DENY",
                            !.outcome = deny("invalid_proof")]]
    /\ UNCHANGED bootVars

\* ADMIT: attach the resolved identity to the request context, call the handler.
Forward(r) ==
    /\ reqs[r].phase = "ADMIT"
    /\ reqs' = [reqs EXCEPT ![r] =
          [@ EXCEPT !.state_api_key = reqs[r].outcome.resolved_identity,
                    !.phase = "HANDLER"]]
    /\ UNCHANGED bootVars

\* DENY: answer 402 with the challenge; the handler is not called.
Challenge(r) ==
    /\ reqs[r].phase = "DENY"
    /\ reqs' = [reqs EXCEPT ![r] =
          [@ EXCEPT !.status = 402,
                    !.body = build_402(tool_payment_configs, reqs[r].tool,
                                       reqs[r].outcome.denial_reason),
                    !.phase = "DONE"]]
    /\ UNCHANGED bootVars

----------------------------------------------------------------------------
(* Tool handler: every decorated function has this body *)

\* get_active_api_key(context): the key the middleware left on the request.
get_active_api_key(q) == q.state_api_key

\* headers = {}; if api_key: headers["Authorization"] = f"Bearer {api_key}"
\* The header is absent (None) when the key is None or empty.
Bearer == <<66, 101, 97, 114, 101, 114, 32>>
authorization_header_unconditional(api_key) == Bearer \o api_key
authorization_header(api_key) == IF Truthy(api_key) THEN Bearer \o api_key ELSE None

\* requests.get(..., timeout=30): seconds.
backend_timeout == 30

\* The tool body up to requests.get(url, params, headers, timeout=30).
HandlerCall_dropping_config(r) ==
    /\ reqs[r].phase = "HANDLER"
    /\ reqs' = [reqs EXCEPT ![r] =
          [@ EXCEPT !.handler_runs = @ + 1,
                    !.authorization = authorization_header(get_active_api_key(reqs[r])),
                    !.backend_calls = @ + 1,
                    !.timeout = backend_timeout,
                    !.phase = "BACKEND"]]
    /\ tool_payment_configs' =
          [t \in DOMAIN tool_payment_configs \ {reqs[r].tool} |-> tool_payment_configs[t]]
    /\ UNCHANGED <<env, pc, error, SERVER_ADDRESS, API_KEY, warned, tools,
                   facilitator_url, testing_mode, user_middleware, d402, routes>>
HandlerCall(r) ==
    /\ reqs[r].phase = "HANDLER"
    /\ reqs' = [reqs EXCEPT ![r] =
          [@ EXCEPT !.handler_runs = @ + 1,
                    !.authorization = authorization_header(get_active_api_key(reqs[r])),
                    !.backend_calls = @ + 1,
                    !.timeout = backend_timeout,
                    !.phase = "BACKEND"]]
    /\ UNCHANGED bootVars

\* What requests.get, raise_for_status and response.json() can end in.
BackendReplies == {"ok", "timeout", "connection_error", "http_error", "bad_json"}
\* The path each handler requests and names in its error value.
endpoint_of(tool) ==
    CASE tool = "get_v1_content_latest" -> "/v1/content/latest"
      [] tool = "get_v1_cryptocurrency_airdrop" -> "/v1/cryptocurrency/airdrop"
      [] tool = "get_v1_cryptocurrency_airdrops" -> "/v1/cryptocurrency/airdrops"
      [] tool = "get_v1_cryptocurrency_categories" -> "/v1/cryptocurrency/categories"
      [] tool = "get_v1_cryptocurrency_category" -> "/v1/cryptocurrency/category"
      [] tool = "get_v1_cryptocurrency_info" -> "/v1/cryptocurrency/info"
      [] tool = "get_v1_cryptocurrency_map" -> "/v1/cryptocurrency/map"
      [] tool = "get_v1_exchange_assets" -> "/v1/exchange/assets"
      [] tool = "get_v1_exchange_info" -> "/v1/exchange/info"
      [] tool = "get_v1_exchange_map" -> "/v1/exchange/map"
      [] tool = "get_v1_fiat_map" -> "/v1/fiat/map"
      [] tool = "get_v1_key_info" -> "/v1/key/info"
      [] tool = "get_v1_tools_postman" -> "/v1/tools/postman"
      [] tool = "get_v1_tools_price_conversion" -> "/v1/tools/price-conversion"
      [] tool = "get_v2_cryptocurrency_info" -> "/v2/cryptocurrency/info"
      [] tool = "get_v2_tools_price_conversion" -> "/v2/tools/price-conversion"
      [] tool = "get_v3_fear_and_greed_historical" -> "/v3/fear-and-greed/historical"
      [] tool = "get_v3_fear_and_greed_latest" -> "/v3/fear-and-greed/latest"
      [] tool = "get_v1_blockchain_statistics_latest" -> "/v1/blockchain/statistics/latest"
      [] tool = "get_v1_community_trending_token" -> "/v1/community/trending/token"
      [] tool = "get_v1_community_trending_topic" -> "/v1/community/trending/topic"
      [] tool = "get_v1_content_posts_comments" -> "/v1/content/posts/comments"
      [] tool = "get_v1_content_posts_latest" -> "/v1/content/posts/latest"
      [] tool = "get_v1_content_posts_top" -> "/v1/content/posts/top"
      [] tool = "get_v1_cryptocurrency_listings_historical" -> "/v1/cryptocurrency/listings/historical"
      [] tool = "get_v1_cryptocurrency_listings_latest" -> "/v1/cryptocurrency/listings/latest"
      [] tool = "get_v1_cryptocurrency_listings_new" -> "/v1/cryptocurrency/listings/new"
      [] tool = "get_v1_cryptocurrency_market_pairs_latest" -> "/v1/cryptocurrency/market-pairs/latest"
      [] tool = "get_v1_cryptocurrency_ohlcv_historical" -> "/v1/cryptocurrency/ohlcv/historical"
      [] tool = "get_v1_cryptocurrency_ohlcv_latest" -> "/v1/cryptocurrency/ohlcv/latest"
      [] tool = "get_v1_cryptocurrency_price_performance_stats_latest" -> "/v1/cryptocurrency/price-performance-stats/latest"
      [] tool = "get_v1_cryptocurrency_quotes_historical" -> "/v1/cryptocurrency/quotes/historical"
      [] tool = "get_v1_cryptocurrency_quotes_latest" -> "/v1/cryptocurrency/quotes/latest"
      [] tool = "get_v1_cryptocurrency_trending_gainers_losers" -> "/v1/cryptocurrency/trending/gainers-losers"
      [] tool = "get_v1_cryptocurrency_trending_latest" -> "/v1/cryptocurrency/trending/latest"
      [] tool = "get_v1_cryptocurrency_trending_most_visited" -> "/v1/cryptocurrency/trending/most-visited"
      [] tool = "get_v1_exchange_listings_latest" -> "/v1/exchange/listings/latest"
      [] tool = "get_v1_exchange_market_pairs_latest" -> "/v1/exchange/market-pairs/latest"
      [] tool = "get_v1_exchange_quotes_historical" -> "/v1/exchange/quotes/historical"
      [] tool = "get_v1_exchange_quotes_latest" -> "/v1/exchange/quotes/latest"
      [] tool = "get_v1_global_metrics_quotes_historical" -> "/v1/global-metrics/quotes/historical"
      [] tool = "get_v1_global_metrics_quotes_latest" -> "/v1/global-metrics/quotes/latest"
      [] tool = "get_v2_cryptocurrency_market_pairs_latest" -> "/v2/cryptocurrency/market-pairs/latest"
      [] tool = "get_v2_cryptocurrency_ohlcv_historical" -> "/v2/cryptocurrency/ohlcv/historical"
      [] tool = "get_v2_cryptocurrency_ohlcv_latest" -> "/v2/cryptocurrency/ohlcv/latest"
      [] tool = "get_v2_cryptocurrency_price_performance_stats_latest" -> "/v2/cryptocurrency/price-performance-stats/latest"
      [] tool = "get_v2_cryptocurrency_quotes_historical" -> "/v2/cryptocurrency/quotes/historical"
      [] tool = "get_v2_cryptocurrency_quotes_latest" -> "/v2/cryptocurrency/quotes/latest"
      [] tool = "get_v3_cryptocurrency_quotes_historical" -> "/v3/cryptocurrency/quotes/historical"
      [] tool = "get_v1_partners_flipside_crypto_fcas_listings_latest" -> "/v1/partners/flipside-crypto/fcas/listings/latest"
      [] tool = "get_v1_partners_flipside_crypto_fcas_quotes_latest" -> "/v1/partners/flipside-crypto/fcas/quotes/latest"
      [] OTHER -> ""
\* return response.json(), or except Exception: return {"error", "endpoint"}.
handler_result_json_uncaught(reply, tool) ==
    IF reply = "ok" THEN [kind |-> "json", endpoint |-> ""]
    ELSE IF reply = "bad_json" THEN [kind |-> "raised", endpoint |-> ""]
    ELSE [kind |-> "error", endpoint |-> endpoint_of(tool)]
handler_result(reply, tool) ==
    IF reply = "ok" THEN [kind |-> "json", endpoint |-> ""]
    ELSE [kind |-> "error", endpoint |-> endpoint_of(tool)]

\* The handler's one requests.get has ended: return the result.
BackendReply_retrying(r) ==
    /\ reqs[r].phase = "BACKEND"
    /\ \E reply \in BackendReplies :
          reqs' = [reqs EXCEPT ![r] =
             IF reply # "ok" /\ reqs[r].backend_calls < 2
             THEN [@ EXCEPT !.backend_calls = @ + 1]
             ELSE [@ EXCEPT !.status = 200,
                            !.result = handler_result(reply, reqs[r].tool),
                            !.phase = "DONE"]]
    /\ UNCHANGED bootVars
BackendReply(r) ==
    /\ reqs[r].phase = "BACKEND"
    /\ \E reply \in BackendReplies :
          reqs' = [reqs EXCEPT ![r] =
             [@ EXCEPT !.status = 200, !.result = handler_result(reply, reqs[r].tool),
                       !.phase = "DONE"]]
    /\ UNCHANGED bootVars

\* health_check(request): the healthy body, for a registered route; a path
\* with no route is answered 404 by the routing surface.
health_check == [kind |-> "healthy", endpoint |-> ""]
HealthCheck(r) ==
    /\ reqs[r].phase = "HEALTH"
    /\ reqs' = [reqs EXCEPT ![r] =
          IF reqs[r].path \in routes
          THEN [@ EXCEPT !.status = 200, !.result = health_check, !.phase = "DONE"]
          ELSE [@ EXCEPT !.status = 404, !.phase = "DONE"]]
    /\ UNCHANGED bootVars

----------------------------------------------------------------------------
(* Specifications *)

\* Environments of the start-up specification: every option unset, empty or set.
BootEnvs ==
    {e \in [EnvNames -> {None, <<>>, S_addr, S_key, S_url, S_true, S_TRUE, S_True,
                         S_false, S_one}] :
        /\ e["SERVER_ADDRESS"] \in {None, <<>>, S_addr}
        /\ e["COINMARKETCAP_API_API_KEY"] \in {None, <<>>, S_key}
        /\ e["FACILITATOR_URL"] \in {None, <<>>, S_url}
        /\ e["D402_FACILITATOR_URL"] \in {None, S_url}
        /\ e["D402_TESTING_MODE"] \in {None, <<>>, S_true, S_TRUE, S_True, S_false, S_one}}

\* Environments of the serving specification.
ServeEnvs ==
    {e \in [EnvNames -> {None, <<>>, S_addr, S_key, S_url, S_true}] :
        /\ e["SERVER_ADDRESS"] \in {None, S_addr}
        /\ e["COINMARKETCAP_API_API_KEY"] \in {None, <<>>, S_key}
        /\ e["FACILITATOR_URL"] \in {None, S_url}
        /\ e["D402_FACILITATOR_URL"] = None
        /\ e["D402_TESTING_MODE"] \in {None, S_true}}

InitState(e) ==
    /\ env = e
    /\ pc = "load"
    /\ error = ""
    /\ SERVER_ADDRESS = None
    /\ API_KEY = None
    /\ warned = FALSE
    /\ tools = {}
    /\ tool_payment_configs = [t \in {} |-> None]
    /\ facilitator_url = None
    /\ testing_mode = FALSE
    /\ user_middleware = <<>>
    /\ d402 = NoD402
    /\ routes = {"/mcp"}
    /\ reqs = [r \in Requests |-> IdleRequest]

Init == \E e \in ServeEnvs : InitState(e)
InitBoot == \E e \in BootEnvs : InitState(e)

Boot ==
    \/ LoadConfiguration
    \/ RegisterTools
    \/ ExtractPaymentConfigs
    \/ ReadD402Config
    \/ CheckFacilitator
    \/ AddCorsMiddleware
    \/ AddD402Middleware
    \/ AddHealthRoute
    \/ RunServer

Serve(r) ==
    \/ Arrive(r)
    \/ ResolveTool(r)
    \/ TryCredential(r)
    \/ TryPayment(r)
    \/ FacilitatorReply(r)
    \/ Forward(r)
    \/ Challenge(r)
    \/ HandlerCall(r)
    \/ BackendReply(r)
    \/ HealthCheck(r)

Next == Boot \/ \E r \in Requests : Serve(r)

Spec == Init /\ [][Next]_vars
SpecBoot == InitBoot /\ [][Boot]_vars

\* The middleware runs each request's coroutine to its end: every step of the
\* admission machine that can be taken is taken, and every facilitator call
\* answers or times out.
Admission(r) ==
    \/ ResolveTool(r)
    \/ TryCredential(r)
    \/ TryPayment(r)
    \/ FacilitatorReply(r)
SpecLive == Init /\ [][Next]_vars /\ \A r \in Requests : WF_vars(Admission(r))

----------------------------------------------------------------------------
(* Properties *)

Known(q) == q.tool \in DOMAIN tool_payment_configs
\* A tool call has arrived (the health route is not a tool call).
Arrived(q) == q.phase # "idle" /\ q.path = "/mcp"
Finished(q) == q.phase = "DONE"
Decided(q) == q.phase \in {"ADMIT", "DENY", "HANDLER", "BACKEND", "DONE"}
PresentsSecret(q) == Truthy(API_KEY) /\ q.credential = API_KEY

\* C1: admission is a hard gate. A request that is denied never has its tool
\* handler invoked nor a backend call made, and a handler invocation or a
\* backend call happens only for a request that reached ADMIT.
C1_HardGate ==
    \A r \in Requests :
       LET q == reqs[r]
       IN  /\ Arrived(q) /\ ~q.outcome.admitted =>
                /\ q.handler_runs = 0
                /\ q.backend_calls = 0
                /\ q.phase \in {"RESOLVE_TOOL", "TRY_CREDENTIAL", "TRY_PAYMENT",
                                "FACILITATOR", "DENY", "DONE"}
           /\ q.status = 402 => q.handler_runs = 0 /\ q.backend_calls = 0
                                   /\ q.result = NoResult

\* A denied request has been answered 402 with no handler run, while another
\* request was admitted and its handler called the backend.
C1_Witness ==
    \E r1, r2 \in Requests :
       /\ reqs[r1].phase = "DONE" /\ reqs[r1].status = 402
       /\ reqs[r1].outcome.denial_reason = "invalid_proof"
       /\ reqs[r1].handler_runs = 0
       /\ reqs[r2].outcome.admitted /\ reqs[r2].backend_calls = 1

\* C2 as stated: a request presenting the exact configured credential is
\* admitted with mode=credential whatever tool it names and whatever proof it
\* carries.
C2_AnyToolName ==
    \A r \in Requests :
       LET q == reqs[r]
       IN  PresentsSecret(q) /\ Decided(q) =>
              q.outcome.admitted /\ q.outcome.mode = "credential"

\* C2, amended: a request for a tool that has a registry entry and presenting
\* the exact configured credential is admitted with mode=credential, whatever
\* proof it carries; it never enters payment verification.
C2_CredentialAdmits ==
    \A r \in Requests :
       LET q == reqs[r]
       IN  PresentsSecret(q) /\ Known(q) =>
              /\ q.phase \in {"idle", "RESOLVE_TOOL", "TRY_CREDENTIAL", "ADMIT",
                              "HANDLER", "BACKEND", "DONE"}
              /\ Decided(q) => /\ q.outcome.admitted
                               /\ q.outcome.mode = "credential"
                               /\ q.status # 402

\* The configured credential together with a proof of a wrong amount is
\* admitted by credential and served.
C2_Witness ==
    \E r \in Requests :
       /\ PresentsSecret(reqs[r]) /\ Known(reqs[r])
       /\ reqs[r].proof.present /\ reqs[r].proof.amount = "999999999999999"
       /\ reqs[r].phase = "DONE"
       /\ reqs[r].outcome.mode = "credential"
       /\ reqs[r].status = 200

\* C3: with testing mode off, a request is admitted with mode=payment only
\* after the facilitator answered valid for it; a rejection, a timeout and a
\* transport error each end in a denial.
C3_NoFailOpen ==
    \A r \in Requests :
       LET q == reqs[r]
       IN  ~testing_mode =>
              /\ q.outcome.admitted /\ q.outcome.mode = "payment" =>
                    q.verdict = "valid" /\ q.facilitator_calls >= 1
              /\ q.verdict \in {"rejected", "timeout", "transport_error"} =>
                    ~q.outcome.admitted /\ q.handler_runs = 0

\* In production a facilitator timeout has been answered with the challenge.
C3_Witness ==
    \E r \in Requests :
       /\ ~testing_mode /\ pc = "serving"
       /\ reqs[r].verdict = "timeout"
       /\ reqs[r].phase = "DONE" /\ reqs[r].status = 402

\* C4: with testing mode off, a request for a known tool with no credential
\* and no proof is answered 402, reason no_proof, and accepts[0] carries the
\* tool's configured amount: "1000000000000000" of the asset 0x3e17...d822,
\* 6 decimals, network sepolia.
C4_NoProofChallenge ==
    \A r \in Requests :
       LET q == reqs[r]
       IN  /\ ~testing_mode /\ Known(q) /\ Arrived(q)
           /\ q.credential = None /\ ~q.proof.present
           => /\ ~q.outcome.admitted
              /\ q.phase \in {"RESOLVE_TOOL", "TRY_CREDENTIAL", "TRY_PAYMENT", "DENY", "DONE"}
              /\ Finished(q) =>
                   /\ q.status = 402
                   /\ q.body.reason = "no_proof"
                   /\ Len(q.body.accepts) = 1
                   /\ q.body.accepts[1].amount = tool_payment_configs[q.tool].price.amount
                   /\ q.body.accepts[1].amount = "1000000000000000"
                   /\ q.body.accepts[1].asset =
                         [address |-> "0x3e17730bb2ca51a8D5deD7E44c003A2e95a4d822",
                          decimals |-> 6, network |-> "sepolia"]

\* quotes_latest, called with no headers in production, got the challenge.
C4_Witness ==
    \E r \in Requests :
       /\ ~testing_mode
       /\ reqs[r].tool = "get_v1_cryptocurrency_quotes_latest"
       /\ reqs[r].credential = None /\ ~reqs[r].proof.present
       /\ reqs[r].phase = "DONE" /\ reqs[r].status = 402
       /\ reqs[r].body.reason = "no_proof"

\* C5: the credential gate passes only a presented value equal to a non-empty
\* configured secret. With COINMARKETCAP_API_API_KEY unset or empty no request
\* is admitted with mode=credential, whatever it presents, and every admission
\* is by payment.
C5_UnsetSecretNeverMatches ==
    \A r \in Requests :
       LET q == reqs[r]
       IN  /\ q.outcome.mode = "credential" =>
                /\ Truthy(env["COINMARKETCAP_API_API_KEY"])
                /\ q.credential = env["COINMARKETCAP_API_API_KEY"]
           /\ ~Truthy(env["COINMARKETCAP_API_API_KEY"]) /\ q.outcome.admitted =>
                q.outcome.mode = "payment"

\* The secret is set to the empty string, the caller presents the empty
\* string, and the request is admitted only by its payment.
C5_Witness ==
    \E r \in Requests :
       /\ env["COINMARKETCAP_API_API_KEY"] = <<>>
       /\ reqs[r].credential = <<>>
       /\ reqs[r].cred_checked
       /\ reqs[r].phase = "DONE" /\ reqs[r].outcome.mode = "payment"

\* C6: a request whose tool_id has no registry entry is denied with status
\* 402 and reason unknown_tool, whatever credential or proof it presents; it
\* is never admitted and never answered with another status.
C6_UnknownToolDenied ==
    \A r \in Requests :
       LET q == reqs[r]
       IN  Arrived(q) /\ ~Known(q) =>
              /\ ~q.outcome.admitted
              /\ q.phase \in {"RESOLVE_TOOL", "DENY", "DONE"}
              /\ q.handler_runs = 0
              /\ q.phase \in {"DENY", "DONE"} => q.outcome.denial_reason = "unknown_tool"
              /\ Finished(q) => q.status = 402 /\ q.body.reason = "unknown_tool"

\* An undeclared tool called with the configured credential and a full
\* payment proof got 402 unknown_tool.
C6_Witness ==
    \E r \in Requests :
       /\ reqs[r].tool \notin DeclaredTools
       /\ PresentsSecret(reqs[r])
       /\ reqs[r].proof.present /\ reqs[r].proof.amount = "1000000000000000"
       /\ reqs[r].phase = "DONE" /\ reqs[r].status = 402
       /\ reqs[r].body.reason = "unknown_tool"

\* In every state: payment verification has the credential check behind it,
\* and a request admitted by credential never had its proof verified.
C7_Order ==
    \A r \in Requests :
       LET q == reqs[r]
       IN  /\ q.phase \in {"TRY_PAYMENT", "FACILITATOR"} => q.cred_checked
           /\ q.verifier_invoked \/ q.facilitator_calls > 0 =>
                 /\ q.cred_checked
                 /\ ~PresentsSecret(q)
                 /\ q.outcome.mode # "credential"
           /\ q.outcome.mode = "credential" =>
                 ~q.verifier_invoked /\ q.facilitator_calls = 0 /\ q.verdict = "none"
\* In every step: the verifier is invoked, and the facilitator called, only
\* from a state in which the request's credential check is already done.
C7_Step ==
    \A r \in Requests :
       /\ ~reqs[r].verifier_invoked /\ reqs'[r].verifier_invoked => reqs[r].cred_checked
       /\ reqs'[r].facilitator_calls > reqs[r].facilitator_calls => reqs[r].cred_checked
\* C7: within a request the credential check comes before payment verification
\* and the first success wins: the verifier and the facilitator are invoked
\* only after the credential check of that request failed, never for a
\* request whose credential matched.
C7_CredentialFirst == [](C7_Order) /\ [][C7_Step]_vars

\* A wrong credential was checked and refused, then the facilitator was called.
C7_Witness ==
    \E r \in Requests :
       /\ reqs[r].credential = S_other /\ Truthy(API_KEY)
       /\ reqs[r].cred_checked /\ reqs[r].verifier_invoked
       /\ reqs[r].facilitator_calls = 1

\* The proof asserts at least the price, on the priced asset and network.
CoversPrice(q) ==
    /\ q.proof.present
    /\ q.proof.amount \in {"1000000000000000", "2000000000000000"}
    /\ q.proof.address = "0x3e17730bb2ca51a8D5deD7E44c003A2e95a4d822"
    /\ q.proof.network = "sepolia"
BelowPrice(q) == q.proof.present /\ q.proof.amount = "999999999999999"

\* C8 as stated: in testing mode every request with a proof covering the price
\* is admitted with mode=payment and without a facilitator call, and every
\* request with a proof below the price is denied with reason invalid_proof.
C8_AnyCredential ==
    \A r \in Requests :
       LET q == reqs[r]
       IN  testing_mode /\ Known(q) /\ Decided(q) =>
              /\ CoversPrice(q) => /\ q.outcome.admitted
                                   /\ q.outcome.mode = "payment"
                                   /\ q.facilitator_calls = 0
              /\ BelowPrice(q) => /\ ~q.outcome.admitted
                                  /\ q.outcome.denial_reason = "invalid_proof"

\* C8, amended: in testing mode a request that does not present the configured
\* credential and whose proof covers the price is admitted with mode=payment,
\* no facilitator call being made; with a proof below the price it is denied
\* with reason invalid_proof. No request causes a facilitator call.
C8_TestingModeProof ==
    \A r \in Requests :
       LET q == reqs[r]
       IN  testing_mode /\ Known(q) =>
              /\ q.facilitator_calls = 0 /\ q.verdict = "none" /\ q.phase # "FACILITATOR"
              /\ ~PresentsSecret(q) /\ Decided(q) =>
                    /\ CoversPrice(q) => /\ q.outcome.admitted
                                         /\ q.outcome.mode = "payment"
                    /\ BelowPrice(q) => /\ ~q.outcome.admitted
                                        /\ q.outcome.denial_reason = "invalid_proof"
                                        /\ Finished(q) => q.status = 402
                                                          /\ q.body.reason = "invalid_proof"

\* Testing mode with a facilitator configured: a proof of twice the price was
\* admitted by payment with no facilitator call, and a proof one unit short
\* was answered 402 invalid_proof.
C8_Witness ==
    \E r1, r2 \in Requests :
       /\ testing_mode /\ Truthy(facilitator_url)
       /\ reqs[r1].proof.amount = "2000000000000000" /\ CoversPrice(reqs[r1])
       /\ reqs[r1].phase = "DONE" /\ reqs[r1].outcome.mode = "payment"
       /\ reqs[r1].facilitator_calls = 0
       /\ BelowPrice(reqs[r2]) /\ reqs[r2].phase = "DONE"
       /\ reqs[r2].body.reason = "invalid_proof"

\* The option D402_TESTING_MODE spells true, in any letter case.
SpellsTrue(v) ==
    /\ Len(v) = 4
    /\ v[1] \in {116, 84} /\ v[2] \in {114, 82} /\ v[3] \in {117, 85} /\ v[4] \in {101, 69}
TestingOption == env["D402_TESTING_MODE"]
NoFacilitatorOption ==
    ~Truthy(env["FACILITATOR_URL"]) /\ ~Truthy(env["D402_FACILITATOR_URL"])
PastConfig == pc \in {"check", "cors", "d402", "health", "run", "serving"}

\* C9: with testing mode off and neither FACILITATOR_URL nor
\* D402_FACILITATOR_URL configured, start-up stops with the fatal error before
\* any middleware is installed; the server never serves.
C9_FatalWithoutFacilitator ==
    ~SpellsTrue(TestingOption) /\ NoFacilitatorOption =>
       /\ pc \in {"load", "register", "main", "config", "check", "aborted"}
       /\ user_middleware = <<>>
       /\ ~d402.installed
       /\ \A r \in Requests : reqs[r].phase = "idle"
       /\ pc = "aborted" /\ Truthy(SERVER_ADDRESS) =>
             error = "Set FACILITATOR_URL or enable D402_TESTING_MODE=true"

\* D402_TESTING_MODE unset, no facilitator option: the process has aborted
\* with the configuration error and nothing was installed.
C9_Witness ==
    /\ TestingOption = None
    /\ env["FACILITATOR_URL"] = None /\ env["D402_FACILITATOR_URL"] = None
    /\ pc = "aborted"
    /\ error = "Set FACILITATOR_URL or enable D402_TESTING_MODE=true"
    /\ user_middleware = <<>>

C11_DocumentedDefaultOn ==
    PastConfig /\ TestingOption = None => testing_mode

DenialReasons == {"no_proof", "invalid_proof", "expired_proof", "unknown_tool"}

\* C12: every refusal of admission is answered with HTTP status 402, whatever
\* the denial reason (no_proof, invalid_proof, expired_proof, unknown_tool); a
\* request that ends without admission never ends with another status, and a
\* status other than 402 is given only to an admitted request.
C12_RefusalIs402 ==
    \A r \in Requests :
       LET q == reqs[r]
       IN  /\ q.status \in {0, 200, 402}
           /\ q.status = 402 <=> Finished(q) /\ q.outcome.mode = "denied"
           /\ q.outcome.mode = "denied" =>
                 /\ q.outcome.denial_reason \in DenialReasons
                 /\ q.phase \in {"DENY", "DONE"}
                 /\ Finished(q) => q.status = 402
           /\ Arrived(q) /\ Finished(q) /\ ~q.outcome.admitted => q.status = 402
           /\ Arrived(q) /\ q.status # 0 /\ q.status # 402 => q.outcome.admitted

\* One request was refused for an expired proof and another for a proof the
\* facilitator did not accept; both were answered 402.
C12_Witness ==
    \E r1, r2 \in Requests :
       /\ reqs[r1].phase = "DONE" /\ reqs[r1].status = 402
       /\ reqs[r1].outcome.denial_reason = "expired_proof"
       /\ reqs[r2].phase = "DONE" /\ reqs[r2].status = 402
       /\ reqs[r2].outcome.denial_reason = "invalid_proof"
       /\ reqs[r2].verdict = "transport_error"

\* C13: a GET of /health goes past the whole admission machine, whatever
\* credential or proof it carries and whatever the server's mode: no
\* credential check, no payment verification, no facilitator call and no
\* admission outcome; it is answered 200 with the healthy body, never 402.
C13_HealthBypasses ==
    \A r \in Requests :
       LET q == reqs[r]
       IN  q.path = "/health" =>
              /\ q.phase \in {"HEALTH", "DONE"}
              /\ ~q.cred_checked /\ ~q.verifier_invoked
              /\ q.facilitator_calls = 0 /\ q.verdict = "none"
              /\ q.outcome = NoOutcome
              /\ q.handler_runs = 0 /\ q.backend_calls = 0
              /\ q.status \in {0, 200} /\ q.body = NoBody
              /\ Finished(q) => q.status = 200 /\ q.result = health_check

\* In production, /health called with no credential and no proof was
\* answered healthy while a tool call was refused with 402.
C13_Witness ==
    \E r1, r2 \in Requests :
       /\ ~testing_mode
       /\ reqs[r1].path = "/health" /\ reqs[r1].credential = None
       /\ ~reqs[r1].proof.present
       /\ reqs[r1].phase = "DONE" /\ reqs[r1].status = 200
       /\ reqs[r1].result.kind = "healthy"
       /\ reqs[r2].path = "/mcp" /\ reqs[r2].status = 402

\* The request is between arrival and answer.
InFlight(q) == q.phase \notin {"idle", "DONE"}

C15_Built ==
    /\ pc \in {"load", "register", "main"} => DOMAIN tool_payment_configs = {}
    /\ pc \in {"config", "check", "cors", "d402", "health", "run", "serving"} =>
          /\ DOMAIN tool_payment_configs = DeclaredTools
          /\ tool_payment_configs = extract_payment_configs_from_mcp(tools, SERVER_ADDRESS)
    /\ (\E r \in Requests : reqs[r].phase # "idle") =>
          DOMAIN tool_payment_configs = DeclaredTools
\* In every step: the registry changes only in the one start-up step that
\* builds it, and that step is never taken again.
C15_Step ==
    /\ tool_payment_configs' # tool_payment_configs => pc = "main" /\ pc' = "config"
    /\ pc # "main" /\ pc # "register" => pc' # "main"
    /\ (\E r \in Requests : reqs'[r] # reqs[r]) =>
          tool_payment_configs' = tool_payment_configs
\* C15: the price registry is built exactly once, during start-up, and is
\* never changed afterwards: no step that serves a request changes any tool's
\* entry.
C15_RegistryBuiltOnce == [](C15_Built) /\ [][C15_Step]_vars

\* With the registry as built, one request was admitted and served and
\* another was refused.
C15_Witness ==
    \E r1, r2 \in Requests :
       /\ tool_payment_configs = extract_payment_configs_from_mcp(DeclaredTools, S_addr)
       /\ reqs[r1].phase = "DONE" /\ reqs[r1].status = 200 /\ reqs[r1].handler_runs = 1
       /\ reqs[r2].phase = "DONE" /\ reqs[r2].status = 402

\* C16: every entry of the registry has a non-negative integer amount, a
\* non-empty asset address, a positive decimal count and a non-empty signing
\* domain name. Every declared descriptor passes that validation, so start-up
\* is not stopped by it, and no request is served, nor answered 500, with a
\* malformed entry in the registry.
C16_WellFormedRegistry ==
    /\ \A t \in DOMAIN tool_payment_configs :
          LET price == tool_payment_configs[t].price
          IN  /\ is_decimal(price.amount)
              /\ price.asset.address # ""
              /\ price.asset.decimals > 0
              /\ price.domain.name # ""
    /\ error # "malformed price descriptor"
    /\ \A r \in Requests :
          reqs[r].phase # "idle" =>
             /\ DOMAIN tool_payment_configs = DeclaredTools
             /\ reqs[r].status # 500

\* The server is serving with all 51 entries built, and a request was
\* answered from them.
C16_Witness ==
    /\ pc = "serving"
    /\ Cardinality(DOMAIN tool_payment_configs) = 51
    /\ tool_payment_configs[QuotesLatest].price.asset.decimals = 6
    /\ \E r \in Requests : reqs[r].phase = "DONE" /\ reqs[r].status = 402
                              /\ Len(reqs[r].body.accepts) = 1

\* C17: every per-request error inside admission becomes a DENY answered 402:
\* an unknown tool, a missing proof, an invalid or expired proof, a facilitator
\* that rejects, times out or cannot be reached. No request leaves the
\* machine by another exit (no state outside the machine, no status 500), and
\* a request that is in flight can always take its next step, so none is left
\* without a terminal outcome.
C17_ErrorsBecomeDeny ==
    \A r \in Requests :
       LET q == reqs[r]
       IN  Arrived(q) =>
              /\ q.phase \in {"RESOLVE_TOOL", "TRY_CREDENTIAL", "TRY_PAYMENT",
                              "FACILITATOR", "ADMIT", "DENY", "HANDLER", "BACKEND",
                              "DONE"}
              /\ q.status \in {0, 200, 402}
              /\ InFlight(q) => ENABLED Serve(r)
              /\ ~Known(q) /\ q.phase # "RESOLVE_TOOL" =>
                    q.outcome = deny("unknown_tool")
              /\ Known(q) /\ ~PresentsSecret(q) /\ ~q.proof.present
                 /\ q.phase \notin {"RESOLVE_TOOL", "TRY_CREDENTIAL", "TRY_PAYMENT"} =>
                    q.outcome = deny("no_proof")
              /\ ~testing_mode /\ q.verifier_invoked /\ q.proof.expired =>
                    q.outcome = deny("expired_proof")
              /\ testing_mode /\ q.verifier_invoked /\ ~CoversPrice(q) =>
                    q.outcome = deny("invalid_proof")
              /\ q.verdict \in {"rejected", "timeout", "transport_error"} =>
                    q.outcome = deny("invalid_proof")
              /\ q.outcome.mode = "denied" =>
                    /\ q.phase \in {"DENY", "DONE"}
                    /\ q.handler_runs = 0
                    /\ Finished(q) => /\ q.status = 402
                                      /\ q.body.reason = q.outcome.denial_reason
              /\ Finished(q) => q.outcome.mode \in {"credential", "payment", "denied"}

\* An unknown tool and a facilitator timeout were both answered 402.
C17_Witness ==
    \E r1, r2 \in Requests :
       /\ reqs[r1].tool = UnknownTool
       /\ reqs[r1].phase = "DONE" /\ reqs[r1].status = 402
       /\ reqs[r1].body.reason = "unknown_tool"
       /\ reqs[r2].verdict = "timeout"
       /\ reqs[r2].phase = "DONE" /\ reqs[r2].status = 402
       /\ reqs[r2].body.reason = "invalid_proof"

ExpiredProof(q) == q.proof.present /\ q.proof.expired

\* C18 as stated: in production every request carrying an expired proof is
\* denied, and no facilitator call is made for it.
C18_AnyExpiredProofDenied ==
    \A r \in Requests :
       LET q == reqs[r]
       IN  ~testing_mode /\ Arrived(q) /\ ExpiredProof(q) /\ Decided(q) =>
              ~q.outcome.admitted /\ q.facilitator_calls = 0

\* C18, amended: in production no facilitator call is ever made for a request
\* carrying an expired proof, and such a request, unless it presents the
\* configured credential, is denied: with reason expired_proof when its tool
\* is known, and answered 402.
C18_ExpiredRejectedLocally ==
    \A r \in Requests :
       LET q == reqs[r]
       IN  ~testing_mode /\ ExpiredProof(q) =>
              /\ q.facilitator_calls = 0 /\ q.verdict = "none"
              /\ q.phase # "FACILITATOR"
              /\ Arrived(q) /\ ~PresentsSecret(q) /\ Decided(q) =>
                    /\ ~q.outcome.admitted
                    /\ Known(q) => /\ q.verifier_invoked
                                   /\ q.outcome.denial_reason = "expired_proof"
                    /\ Finished(q) => q.status = 402 /\ q.handler_runs = 0

\* In production an expired proof of the full price was answered 402
\* expired_proof with no facilitator call, while the facilitator was called
\* for another request.
C18_Witness ==
    \E r1, r2 \in Requests :
       /\ ~testing_mode /\ Truthy(facilitator_url)
       /\ ExpiredProof(reqs[r1]) /\ reqs[r1].proof.amount = "1000000000000000"
       /\ reqs[r1].phase = "DONE" /\ reqs[r1].status = 402
       /\ reqs[r1].body.reason = "expired_proof"
       /\ reqs[r1].facilitator_calls = 0
       /\ reqs[r2].facilitator_calls = 1

\* An accepts entry names an amount, an asset (address, decimals, network)
\* and a signing domain (name, version).
PricedEntry(a) ==
    /\ DOMAIN a = {"amount", "asset", "domain"}
    /\ a.amount # ""
    /\ DOMAIN a.asset = {"address", "decimals", "network"}
    /\ a.asset.address # "" /\ a.asset.network # ""
    /\ DOMAIN a.domain = {"name", "version"}
    /\ a.domain.name # "" /\ a.domain.version # ""

Served(q) == q.handler_runs >= 1 /\ q.backend_calls >= 1

\* C20 as stated: on every ADMIT the backend call of the handler carries the
\* resolved identity as Authorization: Bearer <identity>.
C20_AlwaysBearer ==
    \A r \in Requests :
       LET q == reqs[r]
       IN  q.outcome.admitted /\ Served(q) =>
              q.authorization = Bearer \o q.outcome.resolved_identity

\* In every state: the handler runs only for an admitted request with the
\* resolved identity already on the request context, and its backend call
\* carries Bearer <identity> when the identity is non-empty and no
\* Authorization header when it is empty; the identity is the presented
\* credential (mode credential) or the server's own key (mode payment).
C20_State ==
    \A r \in Requests :
       LET q == reqs[r]
           id == q.outcome.resolved_identity
       IN  /\ q.outcome.mode = "credential" => id = q.credential /\ id = API_KEY /\ Truthy(id)
           /\ q.outcome.mode = "payment" => id = API_KEY
           /\ q.phase \in {"HANDLER", "BACKEND"} \/ Served(q) =>
                 q.outcome.admitted /\ q.state_api_key = id
           /\ Served(q) =>
                 /\ Truthy(id) => q.authorization = Bearer \o id
                 /\ ~Truthy(id) => q.authorization = None
           /\ ~Served(q) => q.authorization = None
\* In every step: a handler starts only from a state in which the identity is
\* on the context, and the context is not changed afterwards.
C20_Step ==
    \A r \in Requests :
       /\ reqs'[r].handler_runs > reqs[r].handler_runs =>
             /\ reqs[r].outcome.admitted
             /\ reqs[r].state_api_key = reqs[r].outcome.resolved_identity
             /\ reqs'[r].state_api_key = reqs[r].state_api_key
       /\ reqs[r].handler_runs >= 1 => reqs'[r].state_api_key = reqs[r].state_api_key
\* C20, amended: on every ADMIT the resolved identity is attached to the
\* request context before the handler runs, the handler takes it from there
\* and from nowhere else, and its backend call carries it as Authorization:
\* Bearer <identity> when it is non-empty; when it is empty (mode payment on a
\* server with no backend key) the call carries no Authorization header.
C20_IdentityForwarded == [](C20_State) /\ [][C20_Step]_vars

\* A request presenting another key was admitted by its payment and served;
\* its backend call carried the server's own key as Bearer k1.
C20_Witness ==
    \E r \in Requests :
       /\ API_KEY = S_key /\ reqs[r].credential = S_other
       /\ reqs[r].outcome.mode = "payment" /\ Served(reqs[r])
       /\ reqs[r].phase = "DONE" /\ reqs[r].status = 200
       /\ reqs[r].state_api_key = S_key
       /\ reqs[r].authorization = Bearer \o S_key

\* In every state: a request in the machine has made at most one facilitator
\* call, and a terminal outcome is one of ADMIT and DENY, never both.
C21_State ==
    \A r \in Requests :
       LET q == reqs[r]
       IN  /\ q.facilitator_calls \in {0, 1}
           /\ q.phase = "FACILITATOR" => q.facilitator_calls = 1 /\ q.verdict = "none"
           /\ q.phase = "ADMIT" => q.outcome.admitted /\ q.outcome.denial_reason = "none"
           /\ q.phase = "DENY" => ~q.outcome.admitted /\ q.outcome.mode = "denied"
           /\ q.outcome.mode = "none" <=>
                 q.phase \in {"idle", "HEALTH", "RESOLVE_TOOL", "TRY_CREDENTIAL",
                              "TRY_PAYMENT", "FACILITATOR"}
                 \/ q.path = "/health"
\* In every step: a tool call enters the machine in RESOLVE_TOOL, and an
\* outcome, once given, is never changed.
C21_Step ==
    \A r \in Requests :
       /\ reqs[r].phase = "idle" /\ reqs'[r].path = "/mcp" =>
             reqs'[r].phase = "RESOLVE_TOOL"
       /\ reqs[r].outcome.mode # "none" => reqs'[r].outcome = reqs[r].outcome
\* C21: every tool call enters the admission machine in RESOLVE_TOOL and
\* eventually reaches exactly one terminal state, ADMIT or DENY, after at
\* most one facilitator call; given that a facilitator call answers or times
\* out, no request stays in TRY_PAYMENT or in the facilitator call for ever.
C21_Terminates ==
    /\ [](C21_State)
    /\ [][C21_Step]_vars
    /\ \A r \in Requests :
          (reqs[r].phase \in {"RESOLVE_TOOL", "TRY_CREDENTIAL", "TRY_PAYMENT",
                              "FACILITATOR"})
             ~> (reqs[r].outcome.mode \in {"credential", "payment", "denied"})

\* A request has reached DENY after its one facilitator call was rejected.
C21_Witness ==
    \E r \in Requests :
       /\ reqs[r].phase = "DENY" /\ reqs[r].verdict = "rejected"
       /\ reqs[r].facilitator_calls = 1
       /\ reqs[r].outcome.denial_reason = "invalid_proof"

\* C22: the denial reason tells the path the request took. unknown_tool: the
\* tool has no registry entry. no_proof: a known tool and no proof presented.
\* expired_proof: a proof was presented and found expired before any
\* facilitator call. invalid_proof: a proof was presented, was not found
\* expired, and failed verification (the structural check in testing mode,
\* the facilitator's answer in production). The 402 body carries that reason,
\* so an expired proof is never reported as no_proof nor as invalid_proof.
C22_ReasonByPath ==
    \A r \in Requests :
       LET q == reqs[r]
           reason == q.outcome.denial_reason
       IN  q.outcome.mode = "denied" =>
              /\ reason \in DenialReasons
              /\ reason = "unknown_tool" <=> ~Known(q)
              /\ reason = "no_proof" <=> Known(q) /\ ~q.proof.present
              /\ reason = "expired_proof" <=>
                    Known(q) /\ ExpiredProof(q) /\ ~testing_mode
              /\ reason = "expired_proof" =>
                    q.verifier_invoked /\ q.facilitator_calls = 0 /\ q.verdict = "none"
              /\ reason = "invalid_proof" =>
                    /\ Known(q) /\ q.proof.present /\ q.verifier_invoked
                    /\ testing_mode =>
                          /\ ~structurally_valid(q.proof, tool_payment_configs[q.tool].price)
                          /\ q.facilitator_calls = 0
                    /\ ~testing_mode =>
                          /\ ~q.proof.expired
                          /\ q.verdict \in {"rejected", "timeout", "transport_error"}
              /\ reason \in {"no_proof", "invalid_proof", "expired_proof"} =>
                    q.cred_checked /\ ~PresentsSecret(q)
              /\ Finished(q) => q.status = 402 /\ q.body.reason = reason

\* In production a request with no proof was answered no_proof and a request
\* whose proof the facilitator rejected was answered invalid_proof.
C22_Witness ==
    \E r1, r2 \in Requests :
       /\ ~testing_mode
       /\ reqs[r1].phase = "DONE" /\ reqs[r1].body.reason = "no_proof"
       /\ ~reqs[r1].proof.present /\ reqs[r1].credential = S_other
       /\ reqs[r2].phase = "DONE" /\ reqs[r2].body.reason = "invalid_proof"
       /\ reqs[r2].verdict = "rejected"

\* C23: every tool registered on the routing surface has exactly one entry in
\* the registry handed to the middleware: once built, the registry's keys are
\* the registered tools, which are the 51 declared tools, none missing and
\* none beside them.
C23_RegistryCoversTools ==
    /\ tools \in {{}, DeclaredTools}
    /\ PastConfig \/ pc = "config" =>
          /\ DOMAIN tool_payment_configs = tools
          /\ tools = DeclaredTools
          /\ Cardinality(DOMAIN tool_payment_configs) = 51
    /\ d402.installed =>
          /\ DOMAIN tool_payment_configs = tools
          /\ \A t \in tools : tool_payment_configs[t].pay_to = SERVER_ADDRESS

\* The middleware is installed and the registry has its 51 entries, the first
\* and the last declared tool among them.
C23_Witness ==
    /\ d402.installed /\ pc = "serving"
    /\ Cardinality(tools) = 51
    /\ "get_v1_content_latest" \in DOMAIN tool_payment_configs
    /\ "get_v1_partners_flipside_crypto_fcas_quotes_latest" \in DOMAIN tool_payment_configs

\* The outcome as a function of the request's own tool, credential and proof,
\* the start-up configuration and the facilitator's verdict for the request.
OutcomeOf(tool, credential, proof, verdict) ==
    IF tool \notin DOMAIN tool_payment_configs THEN deny("unknown_tool")
    ELSE IF Truthy(API_KEY) /\ credential = API_KEY THEN admit("credential", credential)
    ELSE IF ~proof.present THEN deny("no_proof")
    ELSE IF testing_mode
    THEN IF /\ proof.amount \in {"1000000000000000", "2000000000000000"}
            /\ proof.address = "0x3e17730bb2ca51a8D5deD7E44c003A2e95a4d822"
            /\ proof.network = "sepolia"
         THEN admit("payment", API_KEY) ELSE deny("invalid_proof")
    ELSE IF proof.expired THEN deny("expired_proof")
    ELSE IF verdict = "valid" THEN admit("payment", API_KEY)
    ELSE deny("invalid_proof")

\* C24: the outcome of a request (admitted or denied, mode, reason) is a
\* function of its own tool, credential and proof, the start-up configuration
\* and the facilitator's verdict for it, whatever other requests are or were
\* processed: every outcome given equals that function of the request's own
\* fields, and two requests that agree on them have the same outcome.
C24_OutcomeIsFunction ==
    /\ \A r \in Requests :
          LET q == reqs[r]
          IN  q.outcome.mode # "none" =>
                 q.outcome = OutcomeOf(q.tool, q.credential, q.proof, q.verdict)
    /\ \A r1, r2 \in Requests :
          /\ reqs[r1].outcome.mode # "none" /\ reqs[r2].outcome.mode # "none"
          /\ reqs[r1].tool = reqs[r2].tool /\ reqs[r1].credential = reqs[r2].credential
          /\ reqs[r1].proof = reqs[r2].proof /\ reqs[r1].verdict = reqs[r2].verdict
          => reqs[r1].outcome = reqs[r2].outcome

\* A request was refused for its missing proof after another request had been
\* admitted by credential and served.
C24_Witness ==
    \E r1, r2 \in Requests :
       /\ reqs[r1].phase = "DENY" /\ reqs[r1].outcome.denial_reason = "no_proof"
       /\ reqs[r2].phase = "DONE" /\ reqs[r2].outcome.mode = "credential"
       /\ reqs[r2].backend_calls = 1

\* C25: all declared tools carry one price descriptor: amount
\* "1000000000000000", asset 0x3e17730bb2ca51a8D5deD7E44c003A2e95a4d822 with
\* 6 decimals on sepolia, signing domain IATPWallet version 1. Every registry
\* entry holds it, and the challenge for any known tool quotes these values.
C25_OnePriceForAll ==
    LET price == [amount |-> "1000000000000000",
                  asset |-> [address |-> "0x3e17730bb2ca51a8D5deD7E44c003A2e95a4d822",
                             decimals |-> 6, network |-> "sepolia"],
                  domain |-> [name |-> "IATPWallet", version |-> "1"]]
    IN  /\ \A t \in DOMAIN tool_payment_configs : tool_payment_configs[t].price = price
        /\ \A r \in Requests :
              reqs[r].status = 402 /\ reqs[r].tool \in DeclaredTools =>
                 reqs[r].body.accepts = <<price>>

\* Challenges for two different tools were sent, both quoting the one price.
C25_Witness ==
    \E r1, r2 \in Requests :
       /\ reqs[r1].tool = QuotesLatest /\ reqs[r2].tool = ContentLatest
       /\ reqs[r1].status = 402 /\ reqs[r2].status = 402
       /\ reqs[r1].body.accepts = reqs[r2].body.accepts
       /\ Len(reqs[r1].body.accepts) = 1
       /\ reqs[r1].body.accepts[1].amount = "1000000000000000"

\* The place of a middleware in user_middleware; the first one is outermost:
\* it sees a request first and a response last, and a response produced by a
\* middleware passes only through those before it.
Installed(name) == \E i \in 1..Len(user_middleware) : user_middleware[i] = name
PlaceOf(name) == CHOOSE i \in 1..Len(user_middleware) : user_middleware[i] = name

\* C26: as the comment at the CORS registration says, the CORS middleware,
\* added first, processes a request before the other middleware: it stands
\* before the D402 middleware, so a 402 challenge passes through it.
C26_CorsOutermost ==
    /\ Installed("CORSMiddleware") /\ Installed("D402PaymentMiddleware") =>
          PlaceOf("CORSMiddleware") < PlaceOf("D402PaymentMiddleware")
    /\ \A r \in Requests :
          reqs[r].status = 402 =>
             /\ Installed("CORSMiddleware")
             /\ PlaceOf("CORSMiddleware") < PlaceOf("D402PaymentMiddleware")

\* C27: the handler of an admitted request puts an Authorization header on
\* its backend call exactly when the resolved identity is non-empty. A request
\* admitted with mode=payment while the operator secret is unset or empty has
\* an empty identity: its handler still calls the backend, with no
\* Authorization header.
C27_HeaderIffIdentity ==
    \A r \in Requests :
       LET q == reqs[r]
           id == q.outcome.resolved_identity
       IN  /\ Served(q) =>
                /\ q.authorization # None <=> id # None /\ id # <<>>
                /\ q.authorization # None => q.authorization = Bearer \o id
           /\ q.outcome.mode = "payment" /\ ~Truthy(env["COINMARKETCAP_API_API_KEY"]) =>
                /\ id \in {None, <<>>}
                /\ q.phase \in {"ADMIT", "HANDLER", "BACKEND", "DONE"}
                /\ q.phase \in {"BACKEND", "DONE"} =>
                      q.backend_calls = 1 /\ q.authorization = None

\* The operator secret is set to the empty string; a paid request was served
\* by one backend call that had no Authorization header.
C27_Witness ==
    \E r \in Requests :
       /\ env["COINMARKETCAP_API_API_KEY"] = <<>>
       /\ reqs[r].outcome.mode = "payment"
       /\ reqs[r].outcome.resolved_identity = <<>>
       /\ reqs[r].phase = "DONE" /\ reqs[r].backend_calls = 1
       /\ reqs[r].authorization = None /\ reqs[r].result.kind = "json"

\* In every state: a handler that has run ends with the decoded JSON or with
\* the error value naming its endpoint, and while the backend call is
\* outstanding its end is enabled.
C28_State ==
    \A r \in Requests :
       LET q == reqs[r]
       IN  /\ q.result.kind \in {"none", "json", "error", "healthy"}
           /\ q.phase = "BACKEND" => ENABLED BackendReply(r)
           /\ q.handler_runs >= 1 /\ Finished(q) =>
                 /\ q.result.kind \in {"json", "error"}
                 /\ q.status = 200
           /\ q.result.kind = "error" =>
                 /\ q.handler_runs = 1
                 /\ q.result.endpoint # ""
                 /\ q.tool = QuotesLatest =>
                       q.result.endpoint = "/v1/cryptocurrency/quotes/latest"
                 /\ q.tool = ContentLatest => q.result.endpoint = "/v1/content/latest"
           /\ q.result.kind = "json" => q.handler_runs = 1 /\ q.result.endpoint = ""
\* In every step: the end of a backend call, however it ends, gives the
\* handler one of its two results.
C28_Step ==
    \A r \in Requests :
       reqs[r].phase = "BACKEND" /\ reqs'[r].phase # "BACKEND" =>
          /\ reqs'[r].phase = "DONE"
          /\ reqs'[r].result.kind \in {"json", "error"}
          /\ reqs'[r].handler_runs = reqs[r].handler_runs
\* C28: once it has the identity, a tool handler never raises. A backend call
\* that fails (timeout, transport error, non-2xx status, undecodable body) is
\* returned as a value with an error field and the endpoint path, a call that
\* succeeds returns the decoded JSON, and the handler always ends with one of
\* the two.
C28_HandlerNeverRaises == [](C28_State) /\ [][C28_Step]_vars

\* The handler of quotes_latest ended with the error value naming its path.
C28_Witness ==
    \E r \in Requests :
       /\ reqs[r].tool = QuotesLatest /\ reqs[r].phase = "DONE"
       /\ reqs[r].handler_runs = 1
       /\ reqs[r].result = [kind |-> "error",
                            endpoint |-> "/v1/cryptocurrency/quotes/latest"]

\* In every state: a handler invocation has made at most one backend call,
\* with the 30 second timeout; a handler that ended with the error value made
\* exactly one call.
C29_State ==
    \A r \in Requests :
       LET q == reqs[r]
       IN  /\ q.handler_runs \in {0, 1}
           /\ q.backend_calls \in {0, 1}
           /\ q.backend_calls <= q.handler_runs
           /\ q.backend_calls = 1 => q.timeout = 30 /\ q.outcome.admitted
           /\ q.result.kind \in {"json", "error"} => q.backend_calls = 1
\* In every step: a backend call is made only by a handler that starts, never
\* after a call has been made.
C29_Step ==
    \A r \in Requests :
       reqs'[r].backend_calls # reqs[r].backend_calls =>
          /\ reqs[r].backend_calls = 0 /\ reqs'[r].backend_calls = 1
          /\ reqs[r].phase = "HANDLER"
          /\ reqs'[r].handler_runs = reqs[r].handler_runs + 1
\* C29: each invocation of a tool handler makes at most one call of the
\* backend, with a timeout of 30 seconds and no retry: a failed call is not
\* repeated, so an admitted request causes at most one backend call.
C29_OneBackendCall == [](C29_State) /\ [][C29_Step]_vars

\* A paid request's single backend call failed and the handler ended; no
\* second call was made.
C29_Witness ==
    \E r \in Requests :
       /\ reqs[r].outcome.mode = "payment"
       /\ reqs[r].phase = "DONE" /\ reqs[r].result.kind = "error"
       /\ reqs[r].backend_calls = 1 /\ reqs[r].handler_runs = 1
       /\ reqs[r].timeout = 30

\* C30: with SERVER_ADDRESS unset or empty the process stops at module load
\* with the configuration error, before any tool is registered, the registry
\* built, a middleware installed or the server run. An unset or empty operator
\* secret only gives the warning: start-up goes on and is never stopped for it.
C30_AddressRequired ==
    /\ env["SERVER_ADDRESS"] \in {None, <<>>} =>
          /\ pc \in {"load", "aborted"}
          /\ tools = {} /\ DOMAIN tool_payment_configs = {}
          /\ user_middleware = <<>> /\ ~d402.installed
          /\ ~warned /\ API_KEY = None
          /\ \A r \in Requests : reqs[r].phase = "idle"
          /\ pc = "aborted" => error = "SERVER_ADDRESS required for payment protocol"
    /\ env["SERVER_ADDRESS"] \notin {None, <<>>} =>
          /\ error # "SERVER_ADDRESS required for payment protocol"
          /\ pc # "load" => (warned <=> env["COINMARKETCAP_API_API_KEY"] \in {None, <<>>})
          /\ pc \notin {"load", "register"} => tools = DeclaredTools
          /\ pc = "aborted" => error = "Set FACILITATOR_URL or enable D402_TESTING_MODE=true"

\* SERVER_ADDRESS is set to the empty string and the process has stopped with
\* the configuration error, nothing registered.
C30_Witness ==
    /\ env["SERVER_ADDRESS"] = <<>>
    /\ pc = "aborted"
    /\ error = "SERVER_ADDRESS required for payment protocol"
    /\ tools = {} /\ DOMAIN tool_payment_configs = {}

====
